---- MODULE Spec2Model ----
(***************************************************************************)
(* Model of the dual-chain wallet bridge: the WalletConnectButton          *)
(* component (connection effect, handleConnect) and the token / network    *)
(* functions of lib/blockchain.ts.                                         *)
(*                                                                         *)
(* Numbers that exceed 32 bits (base units, IEEE-754 significands) are     *)
(* sequences of decimal digits, most significant first, without leading    *)
(* zeros; zero is <<0>>.                                                   *)
(***************************************************************************)
EXTENDS Integers, Sequences, FiniteSets, TLC

(***************************************************************************)
(* Arbitrary-precision naturals (what BigInt and the exact value of a      *)
(* Number are in the source).                                              *)
(***************************************************************************)
RECURSIVE Norm(_)
Norm(n) ==
    IF Len(n) = 0 THEN <<0>>
    ELSE IF Len(n) > 1 /\ Head(n) = 0 THEN Norm(Tail(n))
    ELSE n

RECURSIVE Zeros(_)
Zeros(c) == IF c <= 0 THEN <<>> ELSE <<0>> \o Zeros(c - 1)

IsZero(n) == Norm(n) = <<0>>

RECURSIVE LexCmp(_, _, _)
LexCmp(a, b, i) ==
    IF i > Len(a) THEN 0
    ELSE IF a[i] < b[i] THEN -1
    ELSE IF a[i] > b[i] THEN 1
    ELSE LexCmp(a, b, i + 1)

\* -1, 0, 1 as a < b, a = b, a > b (both normalised)
BCmp(a, b) ==
    IF Len(a) < Len(b) THEN -1
    ELSE IF Len(a) > Len(b) THEN 1
    ELSE LexCmp(a, b, 1)

\* n * c for a small factor c (c < 2^17)
RECURSIVE MulFrom(_, _, _, _)
MulFrom(n, c, i, carry) ==
    IF i = 0 THEN (IF carry = 0 THEN <<>> ELSE Norm(<<carry \div 100000, (carry \div 10000) % 10,
                                                     (carry \div 1000) % 10, (carry \div 100) % 10,
                                                     (carry \div 10) % 10, carry % 10>>))
    ELSE LET v == c * n[i] + carry
         IN  MulFrom(n, c, i - 1, v \div 10) \o <<v % 10>>

BMul(n, c) == Norm(MulFrom(n, c, Len(n), 0))

\* floor(n / c) for a small divisor c
RECURSIVE DivFrom(_, _, _, _)
DivFrom(n, c, i, rem) ==
    IF i > Len(n) THEN <<>>
    ELSE LET v == rem * 10 + n[i]
         IN  <<v \div c>> \o DivFrom(n, c, i + 1, v % c)

BDiv(n, c) == Norm(DivFrom(n, c, 1, 0))

BDouble(n) == BMul(n, 2)

BHalf(n) == BDiv(n, 2)

BOdd(n) == n[Len(n)] % 2 = 1

RECURSIVE IncFrom(_, _)
IncFrom(n, i) ==
    IF i = 0 THEN <<1>> \o n
    ELSE IF n[i] < 9 THEN [n EXCEPT ![i] = n[i] + 1]
    ELSE IncFrom([n EXCEPT ![i] = 0], i - 1)

BInc(n) == IncFrom(n, Len(n))

\* n * 2^i and floor(n / 2^i), sixteen bits at a time while i allows
RECURSIVE ShiftLeft(_, _)
ShiftLeft(n, i) ==
    IF i = 0 \/ Len(n) = 0 THEN n
    ELSE IF i >= 16 THEN ShiftLeft(BMul(n, 65536), i - 16)
    ELSE ShiftLeft(BDouble(n), i - 1)

RECURSIVE ShiftRight(_, _)
ShiftRight(n, i) ==
    IF i = 0 \/ Len(n) = 0 THEN n
    ELSE IF i >= 16 THEN ShiftRight(BDiv(n, 65536), i - 16)
    ELSE ShiftRight(BHalf(n), i - 1)

(***************************************************************************)
(* IEEE-754 binary64 arithmetic of the JavaScript Number type, for the     *)
(* finite non-negative values the amount conversion produces.  A Number is *)
(* [nan, k, e] with value k * 2^e; k < 2^53.                               *)
(***************************************************************************)
\* 2^52 and 2^53: a binary64 significand k satisfies TwoPow52 <= k < TwoPow53
TwoPow52 == <<4, 5, 0, 3, 5, 9, 9, 6, 2, 7, 3, 7, 0, 4, 9, 6>>

TwoPow53 == BDouble(TwoPow52)

NaN == [nan |-> TRUE, k |-> <<0>>, e |-> 0]

Num(k, e) == [nan |-> FALSE, k |-> k, e |-> e]

\* round-to-nearest, ties-to-even of (q + rest) / 2^t down to at most
\* 53 bits, where rest is a discarded part in [0, 1) that is
\* nonzero iff sticky; guard is the last bit shifted out so far
RECURSIVE RoundBits(_, _, _, _)
RoundBits(q, t, guard, sticky) ==
    IF BCmp(q, TwoPow53) >= 0
    THEN RoundBits(BHalf(q), t + 1, IF BOdd(q) THEN 1 ELSE 0, sticky \/ guard = 1)
    ELSE IF guard = 1 /\ (sticky \/ BOdd(q))
         THEN [k |-> BInc(q), t |-> t]
         ELSE [k |-> q, t |-> t]

\* scale n / 10^f up by powers of two until the quotient has 53 bits:
\* the least s with n * 2^s >= 2^52 * 10^f
RECURSIVE ScaleUp(_, _, _)
ScaleUp(n, f, s) ==
    IF BCmp(n, TwoPow52 \o Zeros(f)) >= 0 THEN [n |-> n, s |-> s]
    ELSE IF BCmp(BMul(n, 65536), TwoPow52 \o Zeros(f)) < 0
         THEN ScaleUp(BMul(n, 65536), f, s + 16)
         ELSE ScaleUp(BDouble(n), f, s + 1)

\* the Number nearest to n / 10^f (n >= 0 an exact integer)
NearestNumber(n, f) ==
    IF IsZero(n) THEN Num(<<0>>, 0)
    ELSE LET sc   == ScaleUp(n, f, 0)
             q    == Norm(SubSeq(sc.n, 1, Len(sc.n) - f))
             r    == Norm(SubSeq(sc.n, Len(sc.n) - f + 1, Len(sc.n)))
             half == BCmp(BDouble(r), <<1>> \o Zeros(f))
         IN  IF BCmp(q, TwoPow53) >= 0
             THEN LET rb == RoundBits(q, 0, 0, ~IsZero(r))
                  IN  Num(rb.k, rb.t)
             ELSE IF half > 0 \/ (half = 0 /\ BOdd(q))
                  THEN Num(BInc(q), 0 - sc.s)
                  ELSE Num(q, 0 - sc.s)

\* Number * 10^p, rounded to a Number (x * (10 ** tokenDecimals))
TimesPow10(x, p) ==
    IF x.nan THEN NaN
    ELSE IF IsZero(x.k) THEN x
    ELSE LET rb == RoundBits(x.k \o Zeros(p), 0, 0, FALSE)
         IN  Num(rb.k, x.e + rb.t)

\* Math.round: the nearest integer, ties towards +infinity
MathRound(x) ==
    IF x.nan THEN NaN
    ELSE IF x.e >= 0 THEN Num(ShiftLeft(x.k, x.e), 0)
    ELSE Num(BHalf(BInc(ShiftRight(x.k, (0 - x.e) - 1))), 0)

(***************************************************************************)
(* Token amounts.  An amount string is [int, frac]: the digits before and  *)
(* after the decimal point ("12.5" is [int |-> <<1,2>>, frac |-> <<5>>]);  *)
(* the empty string is [int |-> <<>>, frac |-> <<>>].                      *)
(***************************************************************************)
tokenDecimals == 6

Str(int, frac) == [int |-> int, frac |-> frac]

EmptyStr == Str(<<>>, <<>>)

\* parseFloat(amount): NaN for a string that starts with no number
parseFloat(amount) ==
    IF Len(amount.int) = 0 /\ Len(amount.frac) = 0 THEN NaN
    ELSE NearestNumber(Norm(amount.int \o amount.frac), Len(amount.frac))

\* BigInt(Math.round(parseFloat(amount) * (10 ** tokenDecimals))).toString();
\* BigInt throws a RangeError for NaN
ToBaseUnits(amount) ==
    LET r == MathRound(TimesPow10(parseFloat(amount), tokenDecimals))
    IN  IF r.nan THEN [ok |-> FALSE, digits |-> <<>>]
        ELSE [ok |-> TRUE, digits |-> r.k]

RECURSIVE TrimTrailingZeros(_)
TrimTrailingZeros(d) ==
    IF Len(d) > 0 /\ d[Len(d)] = 0 THEN TrimTrailingZeros(SubSeq(d, 1, Len(d) - 1))
    ELSE d

padStart(d, width) == Zeros(width - Len(d)) \o d

\* the display string getTrc20Balance builds from a raw balance
FormatUnits(raw) ==
    LET cut             == IF Len(raw) > tokenDecimals THEN Len(raw) - tokenDecimals ELSE 0
        integerPart     == Norm(SubSeq(raw, 1, cut))
        remainder       == Norm(SubSeq(raw, cut + 1, Len(raw)))
        fractionalPart  == padStart(remainder, tokenDecimals)
        trimmedFractional == TrimTrailingZeros(fractionalPart)
    IN  Str(integerPart, trimmedFractional)

(***************************************************************************)
(* lib/constants (Chain, BSC_CHAIN_ID, ACTIVE_TRON_CHAIN_ID).  A chain id  *)
(* is written "type:value", so that === is equality of these strings.      *)
(***************************************************************************)
Chain == {"BSC", "TRON"}

BSC_CHAIN_ID == "number:56"

ACTIVE_TRON_CHAIN_ID == "string:TRON_SHASTA"

null == "null"

(***************************************************************************)
(* lib/blockchain.ts.  Every function is an operator from its arguments    *)
(* and the outcomes of the wallet / SDK calls it may make to its result    *)
(* and the list of calls it made.  A message is a sequence of string parts *)
(* (a template literal's pieces); <<>> is the absent or empty message.     *)
(***************************************************************************)
Return(v) == [kind |-> "return", value |-> v]

Throw(message) == [kind |-> "throw", message |-> message]

\* a string value that is no amount
Text(t) == [text |-> t]

\* an Error object: new Error(message), or one raised by a wallet or an SDK
SdkError(message, shortMessage, code) ==
    [type |-> "object", message |-> message, shortMessage |-> shortMessage, code |-> code]

JsError(text) == SdkError(<<text>>, <<>>, 0)

\* a thrown string (TronWeb rejects with strings as well as objects)
StringError(message) ==
    [type |-> "string", message |-> message, shortMessage |-> <<>>, code |-> 0]

Done(r, calls) == [result |-> r, calls |-> calls]

\* error.shortMessage || error.message || fallback
EvmErrorMessage(error, fallback) ==
    IF error.shortMessage # <<>> THEN error.shortMessage
    ELSE IF error.message # <<>> THEN error.message
    ELSE <<fallback>>

\* (typeof error === 'string' ? error : (error.message || JSON.stringify(error))) || fallback
TronErrorMessage(error, fallback) ==
    LET errorMessage == IF error.type = "string" THEN error.message
                        ELSE IF error.message # <<>> THEN error.message
                        ELSE <<"JSON.stringify(error)">>
    IN  IF errorMessage # <<>> THEN errorMessage ELSE <<fallback>>

\* ethers parseEther: exact, 18 decimals; throws for a string without digits
\* or with more than 18 fractional digits
etherDecimals == 18

parseEther(value) ==
    IF Len(value.int) + Len(value.frac) = 0 \/ Len(value.frac) > etherDecimals
    THEN [ok |-> FALSE, digits |-> <<>>]
    ELSE [ok |-> TRUE,
          digits |-> Norm(value.int \o value.frac \o Zeros(etherDecimals - Len(value.frac)))]

ParseEtherError == SdkError(<<"invalid FixedNumber string value">>,
                            <<"invalid FixedNumber string value">>, 0)

BigIntNaNError ==
    JsError("The number NaN cannot be converted to a BigInt because it is not an integer")

\* getBep20Contract(signerOrProvider): new Contract(BEP20_ADDRESS, abi, signer)
NewContractCall(runner) == [api |-> "new Contract", runner |-> runner]

\* mintBep20Tokens once the signer is known to be present
\* tx: the outcome of contract.mint(recipient, amountWei)
MintWithSigner(signer, amount, tx) ==
    LET contract  == <<NewContractCall(signer)>>
        amountWei == parseEther(amount)
        mint      == [api |-> "contract.mint", amount |-> amountWei.digits, outcome |-> tx]
    IN  IF ~amountWei.ok
        THEN Done(Throw(EvmErrorMessage(ParseEtherError, "BEP-20 minting failed")), contract)
        ELSE IF tx.kind = "rejects"
        THEN Done(Throw(EvmErrorMessage(tx.error, "BEP-20 minting failed")),
                  contract \o <<mint>>)
        ELSE Done(Return(Text(tx.hash)), contract \o <<mint>>)

\* mintBep20Tokens with the contract built before the signer is checked
mintBep20Tokens_CheckLate(signer, amount, tx) ==
    IF signer = "absent"
    THEN Done(Throw(<<"A connected Signer (wallet) is required for minting BEP-20 tokens.">>),
              <<NewContractCall(signer)>>)
    ELSE MintWithSigner(signer, amount, tx)

mintBep20Tokens(signer, amount, tx) ==
    IF signer = "absent"
    THEN Done(Throw(<<"A connected Signer (wallet) is required for minting BEP-20 tokens.">>),
              <<>>)
    ELSE MintWithSigner(signer, amount, tx)

\* burnBep20Tokens without the check for a callable burnFrom: calling the
\* missing method raises a TypeError, which the catch block rethrows
burnBep20Tokens_NoMethodCheck(signer, amount, hasBurnFrom, tx) ==
    IF signer = "absent"
    THEN Done(Throw(<<"A connected Signer (wallet) is required for burning BEP-20 tokens.">>),
              <<>>)
    ELSE LET contract  == <<NewContractCall(signer)>>
             amountWei == parseEther(amount)
             burn      == [api |-> "contract.burnFrom", amount |-> amountWei.digits,
                           outcome |-> tx]
         IN  IF ~amountWei.ok
             THEN Done(Throw(EvmErrorMessage(ParseEtherError, "BEP-20 burning failed")), contract)
             ELSE IF ~hasBurnFrom
             THEN Done(Throw(EvmErrorMessage(JsError("contract.burnFrom is not a function"),
                                             "BEP-20 burning failed")), contract)
             ELSE IF tx.kind = "rejects"
             THEN Done(Throw(EvmErrorMessage(tx.error, "BEP-20 burning failed")),
                       contract \o <<burn>>)
             ELSE Done(Return(Text(tx.hash)), contract \o <<burn>>)

\* hasBurnFrom: typeof contract.burnFrom === 'function';
\* tx: the outcome of contract.burnFrom(targetAddress, amountWei)
burnBep20Tokens(signer, amount, hasBurnFrom, tx) ==
    IF signer = "absent"
    THEN Done(Throw(<<"A connected Signer (wallet) is required for burning BEP-20 tokens.">>),
              <<>>)
    ELSE LET contract  == <<NewContractCall(signer)>>
             amountWei == parseEther(amount)
             burn      == [api |-> "contract.burnFrom", amount |-> amountWei.digits,
                           outcome |-> tx]
             missing   == JsError("The 'burnFrom(address,uint256)' function is not available on this BEP20 contract instance. Check ABI/Contract.")
         IN  IF ~amountWei.ok
             THEN Done(Throw(EvmErrorMessage(ParseEtherError, "BEP-20 burning failed")), contract)
             ELSE IF ~hasBurnFrom
             THEN Done(Throw(EvmErrorMessage(missing, "BEP-20 burning failed")), contract)
             ELSE IF tx.kind = "rejects"
             THEN Done(Throw(EvmErrorMessage(tx.error, "BEP-20 burning failed")),
                       contract \o <<burn>>)
             ELSE Done(Return(Text(tx.hash)), contract \o <<burn>>)

\* getTrc20Contract(tronWebInstance); lookup: the outcome of
\* tronWebInstance.contract(TRC20_ABI.abi, TRC20_ADDRESS_HEX).
\* Gives the handle's methods, or the error thrown, and the calls made.
getTrc20Contract(instance, lookup) ==
    IF ~instance.present \/ ~instance.hasContract
    THEN [threw |-> TRUE, methods |-> {}, calls |-> <<>>,
          error |-> JsError("TronWeb instance or its 'contract' method is not available.")]
    ELSE LET call == <<[api |-> "tronWeb.contract", address |-> "TRC20_ADDRESS_HEX",
                        outcome |-> lookup]>>
         IN  IF lookup.kind = "rejects"
             THEN [threw |-> TRUE, methods |-> {}, calls |-> call, error |-> lookup.error]
             ELSE IF ~lookup.hasMethods
             THEN [threw |-> TRUE, methods |-> {}, calls |-> call,
                   error |-> JsError("Failed to initialize TRC20 contract instance. Check ABI and address.")]
             ELSE [threw |-> FALSE, methods |-> lookup.methods, calls |-> call,
                   error |-> JsError("")]

\* the fixed parameters of send()
feeLimit == 150000000

MinTxIdLength == 60

SendCall(method, raw, outcome) ==
    [api |-> "send", method |-> method, rawAmount |-> raw, feeLimit |-> feeLimit,
     callValue |-> 0, shouldPollResponse |-> FALSE, outcome |-> outcome]

\* the sanity check without the length test: !txID || typeof txID !== 'string'
TxIdRejected_NoLengthCheck(txID) ==
    \/ txID.type = "undefined"
    \/ (txID.type = "string" /\ txID.len = 0)
    \/ txID.type # "string"

\* !txID || typeof txID !== 'string' || txID.length < 60
TxIdRejected(txID) ==
    \/ txID.type = "undefined"
    \/ (txID.type = "string" /\ txID.len = 0)
    \/ txID.type # "string"
    \/ txID.len < MinTxIdLength

\* the body shared by mintTrc20Tokens and burnTrc20Tokens: the method called,
\* the error texts, and the outcomes of the contract lookup and of send()
Trc20Send(method, required, missing, fallback, instance, amount, lookup, send) ==
    IF ~instance.present \/ ~instance.hasAddress
    THEN Done(Throw(<<required>>), <<>>)
    ELSE LET contract  == getTrc20Contract(instance, lookup)
             rawAmount == ToBaseUnits(amount)
             sent      == contract.calls \o <<SendCall(method, rawAmount.digits, send)>>
         IN  IF contract.threw
             THEN Done(Throw(TronErrorMessage(contract.error, fallback)), contract.calls)
             ELSE IF ~rawAmount.ok
             THEN Done(Throw(TronErrorMessage(BigIntNaNError, fallback)), contract.calls)
             ELSE IF method \notin contract.methods
             THEN Done(Throw(TronErrorMessage(JsError(missing), fallback)), contract.calls)
             ELSE IF send.kind = "rejects"
             THEN Done(Throw(TronErrorMessage(send.error, fallback)), sent)
             ELSE IF TxIdRejected(send.txID)
             THEN Done(Throw(TronErrorMessage(
                           JsError("Invalid or missing transaction ID received from TronLink."),
                           fallback)), sent)
             ELSE Done(Return(send.txID), sent)

mintTrc20Tokens(instance, amount, lookup, send) ==
    Trc20Send("mint",
              "TronLink wallet instance with address is required for minting TRC-20 tokens.",
              "Contract ABI doesn't seem to have a 'mint(address,uint256)' function.",
              "TRC-20 minting failed", instance, amount, lookup, send)

burnTrc20Tokens(instance, amount, lookup, send) ==
    Trc20Send("burn",
              "TronLink wallet instance with address is required for burning TRC-20 tokens.",
              "Contract ABI doesn't seem to have a 'burn(address,uint256)' function. Check ABI/Contract.",
              "TRC-20 burning failed", instance, amount, lookup, send)

\* ethers formatEther: 18 decimals, trailing zeros dropped but one digit kept
formatEther(wei) ==
    LET cut     == IF Len(wei) > etherDecimals THEN Len(wei) - etherDecimals ELSE 0
        whole   == Norm(SubSeq(wei, 1, cut))
        decimal == TrimTrailingZeros(padStart(SubSeq(wei, cut + 1, Len(wei)), etherDecimals))
    IN  Str(whole, IF decimal = <<>> THEN <<0>> ELSE decimal)

\* provider: whether the argument is present and whether its .provider is;
\* balanceOf: the outcome of contract.balanceOf(address)
getBep20Balance(provider, balanceOf) ==
    IF ~provider.present THEN Done(Return(Text("Error")), <<>>)
    ELSE IF ~provider.inner THEN Done(Return(Text("Error")), <<>>)
    ELSE LET calls == <<NewContractCall("readProvider"),
                        [api |-> "contract.balanceOf", outcome |-> balanceOf]>>
         IN  IF balanceOf.kind = "returns"
             THEN Done(Return(formatEther(balanceOf.raw)), calls)
             ELSE Done(Return(Text("Error")), calls)

\* getTrc20Balance with the contract lookup outside the try block
getTrc20Balance_LookupUnguarded(instance, lookup, call) ==
    IF ~instance.present THEN Done(Return(Text("Error")), <<>>)
    ELSE LET contract == getTrc20Contract(instance, lookup)
             called   == contract.calls \o <<[api |-> "balanceOf.call", outcome |-> call]>>
         IN  IF contract.threw THEN Done(Throw(contract.error.message), contract.calls)
             ELSE IF "balanceOf" \notin contract.methods
             THEN Done(Return(Text("Error")), contract.calls)
             ELSE IF call.kind = "rejects" THEN Done(Return(Text("Error")), called)
             ELSE IF ~call.numeric THEN Done(Return(Text("Error")), called)
             ELSE Done(Return(FormatUnits(call.raw)), called)

\* lookup: the outcome of the contract lookup;
\* call: the outcome of contract.methods.balanceOf(address).call()
getTrc20Balance(instance, lookup, call) ==
    IF ~instance.present THEN Done(Return(Text("Error")), <<>>)
    ELSE LET contract == getTrc20Contract(instance, lookup)
             called   == contract.calls \o <<[api |-> "balanceOf.call", outcome |-> call]>>
         IN  IF contract.threw THEN Done(Return(Text("Error")), contract.calls)
             ELSE IF "balanceOf" \notin contract.methods
             THEN Done(Return(Text("Error")), contract.calls)
             ELSE IF call.kind = "rejects" THEN Done(Return(Text("Error")), called)
             ELSE IF ~call.numeric THEN Done(Return(Text("Error")), called)
             ELSE Done(Return(FormatUnits(call.raw)), called)

\* the chain ids requestNetworkSwitch is called with, as "type:value"
SwitchTargets == {"number:56", "string:56", "number:97", "string:abc"}

\* BigInt(chainId): a SyntaxError for a string that is no integer
BigIntOf(chainId) ==
    CASE chainId = "number:56" -> [ok |-> TRUE, value |-> 56]
      [] chainId = "string:56" -> [ok |-> TRUE, value |-> 56]
      [] chainId = "number:97" -> [ok |-> TRUE, value |-> 97]
      [] OTHER                 -> [ok |-> FALSE, value |-> 0]

\* `${chainId}`
ChainIdText(chainId) ==
    CASE chainId = "number:56" -> "56"
      [] chainId = "string:56" -> "56"
      [] chainId = "number:97" -> "97"
      [] OTHER                 -> "abc"

\* '0x' + n.toString(16), as the list of hexadecimal digits
RECURSIVE HexDigits(_)
HexDigits(n) == IF n < 16 THEN <<n>> ELSE HexDigits(n \div 16) \o <<n % 16>>

ToHex(n) == [prefix |-> "0x", digits |-> HexDigits(n)]

SendRequest(method, hexChainId, outcome) ==
    [api |-> "provider.send", method |-> method, chainId |-> hexChainId,
     outcome |-> outcome]

\* error.message || fallback
MessageOr(error, fallback) == IF error.message # <<>> THEN error.message ELSE <<fallback>>

\* chainId == BSC_CHAIN_ID: the comparison by value instead of ===
HasAddParameters_LooseEquality(chainId) ==
    BigIntOf(chainId) = BigIntOf(BSC_CHAIN_ID)

\* chainId === BSC_CHAIN_ID: the one chain whose add-chain parameters are registered
HasAddParameters(chainId) == chainId = BSC_CHAIN_ID

\* SwitchFailed sending the switch request once more before giving up
SwitchFailed_Retry(chainId, hexChainId, switch, add) ==
    LET switched == <<SendRequest("wallet_switchEthereumChain", hexChainId, switch)>>
        added    == switched \o <<SendRequest("wallet_addEthereumChain", hexChainId, add)>>
    IN  IF switch.error.code = 4902
        THEN IF HasAddParameters(chainId)
             THEN IF add.kind = "resolves"
                  THEN Done(Return(Text("undefined")), added)
                  ELSE Done(Throw(<<"Failed to add network: ">>
                                  \o MessageOr(add.error, "Unknown error")), added)
             ELSE Done(Throw(<<"Failed to add network: ",
                               "Configuration to add chainId ", ChainIdText(chainId),
                               " is missing.">>), switched)
        ELSE Done(Throw(<<"Failed to switch network: ">>
                        \o MessageOr(switch.error, "User rejected or unknown error")),
                  switched \o switched)

\* the catch block of requestNetworkSwitch: the switch request was rejected
SwitchFailed(chainId, hexChainId, switch, add) ==
    LET switched == <<SendRequest("wallet_switchEthereumChain", hexChainId, switch)>>
        added    == switched \o <<SendRequest("wallet_addEthereumChain", hexChainId, add)>>
    IN  IF switch.error.code = 4902
        THEN IF HasAddParameters(chainId)
             THEN IF add.kind = "resolves"
                  THEN Done(Return(Text("undefined")), added)
                  ELSE Done(Throw(<<"Failed to add network: ">>
                                  \o MessageOr(add.error, "Unknown error")), added)
             ELSE Done(Throw(<<"Failed to add network: ",
                               "Configuration to add chainId ", ChainIdText(chainId),
                               " is missing.">>), switched)
        ELSE Done(Throw(<<"Failed to switch network: ">>
                        \o MessageOr(switch.error, "User rejected or unknown error")),
                  switched)

\* switch, add: the outcomes of provider.send('wallet_switchEthereumChain', ...)
\* and of provider.send('wallet_addEthereumChain', ...)
requestNetworkSwitch(provider, chainId, switch, add) ==
    IF provider # "BrowserProvider"
    THEN Done(Throw(<<"Wallet provider is not available or does not support 'send' method for switching network.">>),
              <<>>)
    ELSE IF ~BigIntOf(chainId).ok
    THEN Done(Throw(<<"Cannot convert ", ChainIdText(chainId), " to a BigInt">>), <<>>)
    ELSE LET hexChainId == ToHex(BigIntOf(chainId).value)
         IN  IF switch.kind = "resolves"
             THEN Done(Return(Text("undefined")),
                       <<SendRequest("wallet_switchEthereumChain", hexChainId, switch)>>)
             ELSE SwitchFailed(chainId, hexChainId, switch, add)

(***************************************************************************)
(* getTronLinkProvider (lines 98-124). global: whether window is defined,  *)
(* and window.tronLink: whether it exists, its ready flag, whether it has  *)
(* a request method and a tronWeb instance.                                *)
(***************************************************************************)
ConsoleCall(level, message) == [api |-> level, message |-> message]

\* getTronLinkProvider returning the object although tronWeb is not injected
\* (the "return tronLink" alternative of line 119)
getTronLinkProvider_WithoutTronWeb(global) ==
    LET tronLink == global.tronLink
    IN  IF ~global.window THEN Done(Return(Text("null")), <<>>)
        ELSE IF ~tronLink.exists
        THEN Done(Return(Text("null")),
                  <<ConsoleCall("console.warn", "TronLink (window.tronLink) not found.")>>)
        ELSE IF ~tronLink.ready
        THEN Done(Return(Text("null")),
                  <<ConsoleCall("console.warn",
                        "TronLink is installed but not ready. User might need to log in or setup.")>>)
        ELSE IF ~tronLink.request
        THEN Done(Return(Text("null")),
                  <<ConsoleCall("console.error",
                        "TronLink found and ready, but 'request' method is missing.")>>)
        ELSE IF ~tronLink.tronWeb
        THEN Done(Return([handle |-> tronLink]),
                  <<ConsoleCall("console.warn",
                        "TronLink found and ready, but 'tronWeb' instance is not yet injected. May need a short delay or re-check.")>>)
        ELSE Done(Return([handle |-> tronLink]), <<>>)

getTronLinkProvider(global) ==
    LET tronLink == global.tronLink
    IN  IF ~global.window THEN Done(Return(Text("null")), <<>>)
        ELSE IF ~tronLink.exists
        THEN Done(Return(Text("null")),
                  <<ConsoleCall("console.warn", "TronLink (window.tronLink) not found.")>>)
        ELSE IF ~tronLink.ready
        THEN Done(Return(Text("null")),
                  <<ConsoleCall("console.warn",
                        "TronLink is installed but not ready. User might need to log in or setup.")>>)
        ELSE IF ~tronLink.request
        THEN Done(Return(Text("null")),
                  <<ConsoleCall("console.error",
                        "TronLink found and ready, but 'request' method is missing.")>>)
        ELSE IF ~tronLink.tronWeb
        THEN Done(Return(Text("null")),
                  <<ConsoleCall("console.warn",
                        "TronLink found and ready, but 'tronWeb' instance is not yet injected. May need a short delay or re-check.")>>)
        ELSE Done(Return([handle |-> tronLink]), <<>>)

(***************************************************************************)
(* Module initialization (lines 37-57). An environment variable is unset,  *)
(* the empty string, or set; env gives the five variables read.            *)
(***************************************************************************)
DefaultBscRpcUrl == "bsc-testnet-rpc.publicnode.com"

\* !value: undefined and '' are both falsy
Falsy(value) == value \in {"unset", "empty"}

\* process.env.NEXT_PUBLIC_BSC_RPC_URL || "bsc-testnet-rpc.publicnode.com"
BscRpcUrlOf(env) ==
    IF Falsy(env.NEXT_PUBLIC_BSC_RPC_URL) THEN DefaultBscRpcUrl ELSE env.NEXT_PUBLIC_BSC_RPC_URL

MissingVariable(name) == Throw(<<"Missing environment variable: ", name>>)

\* staticTronWeb.address.toHex(TRC20_ADDRESS_BASE58) and its outcome
ToHexCall(outcome) == [api |-> "address.toHex", outcome |-> outcome]

\* the top-level statements of the module, in order; toHex: the outcome of the
\* address conversion, "returns" or "throws"
ModuleInit(env, toHex) ==
    IF Falsy(BscRpcUrlOf(env))
    THEN Done(MissingVariable("NEXT_PUBLIC_BSC_RPC_URL"), <<>>)
    ELSE IF Falsy(env.NEXT_PUBLIC_BEP20_CONTRACT_ADDRESS)
    THEN Done(MissingVariable("NEXT_PUBLIC_BEP20_CONTRACT_ADDRESS"), <<>>)
    ELSE IF Falsy(env.NEXT_PUBLIC_TRON_RPC_URL)
    THEN Done(MissingVariable("NEXT_PUBLIC_TRON_RPC_URL"), <<>>)
    ELSE IF Falsy(env.NEXT_PUBLIC_TRC20_CONTRACT_ADDRESS)
    THEN Done(MissingVariable("NEXT_PUBLIC_TRC20_CONTRACT_ADDRESS"), <<>>)
    ELSE IF toHex = "throws"
    THEN Done(Throw(<<"Invalid NEXT_PUBLIC_TRC20_CONTRACT_ADDRESS format: ",
                      env.NEXT_PUBLIC_TRC20_CONTRACT_ADDRESS>>), <<ToHexCall(toHex)>>)
    ELSE Done(Return(Text("TRC20_ADDRESS_HEX")), <<ToHexCall(toHex)>>)

(***************************************************************************)
(* State.                                                                  *)
(***************************************************************************)
VARIABLES
    \* WalletConnectButton: the selectedChain prop, the useBlockchain() values
    selectedChain, isConnected, account, provider, chainId, isLoading,
    \* component state
    isConnecting, connectedAddress,
    \* the connection effect: whether it has run, and the dependency values of its last run
    effectRan, effectDeps,
    \* handleConnect: position, the selectedChain its closure captured,
    \* the eth_requestAccounts requests it issued, the last toast shown
    hcPc, hcSel, hcRequests, toast,
    \* the browser: window.ethereum present, and the network that wallet is on
    ethereum, ethChainId,
    \* the last host callback the component made, the arguments of the one
    \* before it, and whether a prop, hook value or component state changed
    \* since the last callback
    lastCall, prevCall, changed,
    \* lib/blockchain.ts: the function last called, its arguments, its outcome,
    \* and the wallet / chain-SDK calls it made, in order
    fn, args, result, sdkCalls,
    \* amount round trip: the amount string, its base units, its display form
    stage, amount, rawAmount, display

propVars == <<selectedChain>>

hookVars == <<isConnected, account, provider, chainId, isLoading>>

effectVars == <<effectRan, effectDeps>>

hcVars == <<hcPc, hcSel, hcRequests>>

envVars == <<ethereum, ethChainId>>

callVars == <<lastCall, prevCall>>

uiVars == <<propVars, hookVars, isConnecting, connectedAddress, effectVars, hcVars,
            toast, envVars, callVars, changed>>

libVars == <<fn, args, result, sdkCalls>>

amountVars == <<stage, amount, rawAmount, display>>

vars == <<uiVars, libVars, amountVars>>

(***************************************************************************)
(* WalletConnectButton                                                     *)
(***************************************************************************)
\* values the useBlockchain() hook and the injected wallet can report
Accounts == {"0xA1"}

ChainIds == {BSC_CHAIN_ID, ACTIVE_TRON_CHAIN_ID, "number:1"}

\* the effect's dependency array
Deps ==
    [isConnected |-> isConnected, account |-> account, provider |-> provider,
     chainId |-> chainId, isLoading |-> isLoading, selectedChain |-> selectedChain]

\* A host callback invocation.  Beside the arguments it records where the call
\* was made (src), whether console.warn ran with it (warned), the selectedChain
\* prop (sel) and the network id the wallet reported (net) at that moment, and
\* whether any state changed since the callback before it (fresh).
NoCall == [cb |-> "none"]

OnConnected(src, address, prov, chain, wrongNetwork, warned, net, fresh) ==
    [cb |-> "onConnected", src |-> src, address |-> address, provider |-> prov,
     chain |-> chain, wrongNetwork |-> wrongNetwork, warned |-> warned,
     sel |-> selectedChain, net |-> net, fresh |-> fresh]

OnDisconnected(src, fresh) == [cb |-> "onDisconnected", src |-> src, fresh |-> fresh]

\* the callback and its arguments alone
CallArgs(call) ==
    IF call.cb = "onConnected"
    THEN [cb |-> call.cb, address |-> call.address, provider |-> call.provider,
          chain |-> call.chain, wrongNetwork |-> call.wrongNetwork]
    ELSE [cb |-> call.cb]

Notify(call) ==
    /\ lastCall' = call
    /\ prevCall' = CallArgs(lastCall)
    /\ changed' = FALSE

\* ResolveChain with the chain taken from the selection instead of the chain id
ResolveChain_FromSelection(id, selected) ==
    IF id = BSC_CHAIN_ID \/ id = ACTIVE_TRON_CHAIN_ID
    THEN [chain |-> selected, wrongNetwork |-> FALSE, warn |-> FALSE]
    ELSE [chain |-> selected, wrongNetwork |-> TRUE, warn |-> TRUE]

\* ResolveChain with the unrecognized chain id treated as the Tron network
ResolveChain_NoFallback(id, selected) ==
    IF id = BSC_CHAIN_ID
    THEN [chain |-> "BSC", wrongNetwork |-> selected # "BSC", warn |-> FALSE]
    ELSE [chain |-> "TRON", wrongNetwork |-> selected # "TRON", warn |-> FALSE]

\* the chain and wrong-network flag the effect derives from the reported chain id;
\* warn: console.warn("Connected to an unrecognized chain ID:", chainId)
ResolveChain(id, selected) ==
    IF id = BSC_CHAIN_ID
    THEN [chain |-> "BSC", wrongNetwork |-> selected # "BSC", warn |-> FALSE]
    ELSE IF id = ACTIVE_TRON_CHAIN_ID
    THEN [chain |-> "TRON", wrongNetwork |-> selected # "TRON", warn |-> FALSE]
    ELSE [chain |-> selected, wrongNetwork |-> TRUE, warn |-> TRUE]

WalletConnected == isConnected /\ account # null /\ provider # null /\ chainId # null

\* useEffect(..., [isConnected, account, provider, chainId, isLoading, selectedChain]):
\* runs after mount and after every render in which a dependency changed
Effect ==
    /\ ~effectRan \/ effectDeps # Deps
    /\ effectRan' = TRUE
    /\ effectDeps' = Deps
    /\ IF WalletConnected
       THEN LET r == ResolveChain(chainId, selectedChain)
            IN  Notify(OnConnected("effect", account, provider, r.chain,
                                   r.wrongNetwork, r.warn, chainId, changed))
       ELSE IF ~isConnected /\ ~isLoading
            THEN Notify(OnDisconnected("effect", changed))
            ELSE UNCHANGED <<callVars, changed>>
    /\ UNCHANGED <<propVars, hookVars, isConnecting, connectedAddress, hcVars, toast, envVars>>
    /\ UNCHANGED <<libVars, amountVars>>

\* the "connect wallet" button is rendered (neither the loading nor the
\* connected view) and enabled
ConnectButtonEnabled == ~isLoading /\ ~(isConnected /\ account # null) /\ ~isConnecting

\* the component is mounted and its first effect has run: from then on the
\* user, the parent page and the hook can act
Mounted == effectRan

\* handleConnect, up to its return or to the await of eth_requestAccounts
ClickConnect ==
    /\ Mounted
    /\ ConnectButtonEnabled
    /\ hcPc = "idle"
    /\ IF connectedAddress # null
       THEN \* setConnectedAddress(null); onDisconnected(); return
            /\ connectedAddress' = null
            /\ Notify(OnDisconnected("handleConnect", TRUE))
            /\ UNCHANGED <<isConnecting, hcVars, toast>>
       ELSE IF ~ethereum
            THEN \* setIsConnecting(true); toast; return; finally setIsConnecting(false)
                 /\ toast' = "Wallet Not Found"
                 /\ isConnecting' = FALSE
                 /\ hcRequests' = 0
                 /\ UNCHANGED <<connectedAddress, hcPc, hcSel, callVars, changed>>
            ELSE \* setIsConnecting(true); window.ethereum.request(eth_requestAccounts)
                 /\ isConnecting' = TRUE
                 /\ hcPc' = "awaiting"
                 /\ hcSel' = selectedChain
                 /\ hcRequests' = 1
                 /\ changed' = TRUE
                 /\ UNCHANGED <<connectedAddress, toast, callVars>>
    /\ UNCHANGED <<propVars, hookVars, effectVars, envVars>>
    /\ UNCHANGED <<libVars, amountVars>>

\* eth_requestAccounts resolves with a list of accounts
AccountsResolved ==
    /\ Mounted
    /\ hcPc = "awaiting"
    /\ \E accounts \in {<<>>} \cup {<<a>> : a \in Accounts} :
          IF Len(accounts) = 0
          THEN \* throw new Error('No accounts found'), caught: toast
               /\ toast' = "Connection Failed"
               /\ changed' = TRUE
               /\ UNCHANGED <<connectedAddress, callVars>>
          ELSE \* setConnectedAddress(address); onConnected(...); toast
               /\ connectedAddress' = accounts[1]
               /\ Notify(OnConnected("handleConnect", accounts[1], "window.ethereum",
                                     hcSel, FALSE, FALSE, ethChainId, TRUE))
               /\ toast' = "Wallet Connected"
    /\ isConnecting' = FALSE
    /\ hcPc' = "idle"
    /\ hcSel' = null
    /\ UNCHANGED <<propVars, hookVars, effectVars, hcRequests, envVars>>
    /\ UNCHANGED <<libVars, amountVars>>

\* AccountsRejected without the finally block: isConnecting stays set
AccountsRejected_NoFinally ==
    /\ Mounted
    /\ hcPc = "awaiting"
    /\ toast' = "Connection Failed"
    /\ hcPc' = "idle"
    /\ hcSel' = null
    /\ changed' = TRUE
    /\ UNCHANGED <<propVars, hookVars, isConnecting, connectedAddress, effectVars,
                   hcRequests, envVars, callVars>>
    /\ UNCHANGED <<libVars, amountVars>>

\* eth_requestAccounts rejects (user rejection, wallet error): caught, toast
AccountsRejected ==
    /\ Mounted
    /\ hcPc = "awaiting"
    /\ toast' = "Connection Failed"
    /\ isConnecting' = FALSE
    /\ hcPc' = "idle"
    /\ hcSel' = null
    /\ changed' = TRUE
    /\ UNCHANGED <<propVars, hookVars, connectedAddress, effectVars, hcRequests,
                   envVars, callVars>>
    /\ UNCHANGED <<libVars, amountVars>>

\* the parent page selects the other chain
SelectChain ==
    /\ Mounted
    /\ \E c \in Chain \ {selectedChain} : selectedChain' = c
    /\ changed' = TRUE
    /\ UNCHANGED <<hookVars, isConnecting, connectedAddress, effectVars, hcVars, toast,
                   envVars, callVars>>
    /\ UNCHANGED <<libVars, amountVars>>

\* useBlockchain(): a connection attempt or network switch starts or stops loading
HookLoading ==
    /\ Mounted
    /\ isLoading' = ~isLoading
    /\ changed' = TRUE
    /\ UNCHANGED <<propVars, isConnected, account, provider, chainId, isConnecting,
                   connectedAddress, effectVars, hcVars, toast, envVars, callVars>>
    /\ UNCHANGED <<libVars, amountVars>>

\* useBlockchain(): a wallet connects; its chain id may arrive later
HookConnect ==
    /\ Mounted
    /\ ~isConnected
    /\ isConnected' = TRUE
    /\ \E a \in Accounts : account' = a
    /\ provider' = "hookProvider"
    /\ \E id \in ChainIds \cup {null} : chainId' = id
    /\ isLoading' = FALSE
    /\ changed' = TRUE
    /\ UNCHANGED <<propVars, isConnecting, connectedAddress, effectVars, hcVars, toast,
                   envVars, callVars>>
    /\ UNCHANGED <<libVars, amountVars>>

\* useBlockchain(): the connected wallet reports another chain id
HookChainChanged ==
    /\ Mounted
    /\ isConnected
    /\ \E id \in ChainIds \ {chainId} : chainId' = id
    /\ changed' = TRUE
    /\ UNCHANGED <<propVars, isConnected, account, provider, isLoading, isConnecting,
                   connectedAddress, effectVars, hcVars, toast, envVars, callVars>>
    /\ UNCHANGED <<libVars, amountVars>>

\* useBlockchain(): disconnectWallet (the connected view's button) or the
\* wallet dropping the connection
HookDisconnect ==
    /\ Mounted
    /\ isConnected
    /\ isConnected' = FALSE
    /\ account' = null
    /\ provider' = null
    /\ chainId' = null
    /\ changed' = TRUE
    /\ UNCHANGED <<propVars, isLoading, isConnecting, connectedAddress, effectVars,
                   hcVars, toast, envVars, callVars>>
    /\ UNCHANGED <<libVars, amountVars>>

UIInit ==
    /\ selectedChain \in Chain
    /\ isConnected = FALSE
    /\ account = null
    /\ provider = null
    /\ chainId = null
    /\ isLoading \in BOOLEAN
    /\ isConnecting = FALSE
    /\ connectedAddress = null
    /\ effectRan = FALSE
    /\ effectDeps = Deps
    /\ hcPc = "idle"
    /\ hcSel = null
    /\ hcRequests = 0
    /\ toast = "none"
    /\ ethereum \in BOOLEAN
    /\ ethChainId \in (IF ethereum THEN {BSC_CHAIN_ID, "number:1"} ELSE {null})
    /\ lastCall = NoCall
    /\ prevCall = NoCall
    /\ changed = FALSE

UIIdle ==
    /\ selectedChain = "BSC"
    /\ isConnected = FALSE
    /\ account = null
    /\ provider = null
    /\ chainId = null
    /\ isLoading = FALSE
    /\ isConnecting = FALSE
    /\ connectedAddress = null
    /\ effectRan = FALSE
    /\ effectDeps = Deps
    /\ hcPc = "idle"
    /\ hcSel = null
    /\ hcRequests = 0
    /\ toast = "none"
    /\ ethereum = FALSE
    /\ ethChainId = null
    /\ lastCall = NoCall
    /\ prevCall = NoCall
    /\ changed = FALSE

LibIdle ==
    /\ fn = "none"
    /\ args = <<>>
    /\ result = [kind |-> "none"]
    /\ sdkCalls = <<>>

AmountIdle ==
    /\ stage = "idle"
    /\ amount = EmptyStr
    /\ rawAmount = <<>>
    /\ display = EmptyStr

Init == UIInit /\ LibIdle /\ AmountIdle

Next ==
    \/ Effect
    \/ ClickConnect
    \/ AccountsResolved
    \/ AccountsRejected
    \/ SelectChain
    \/ HookLoading
    \/ HookConnect
    \/ HookChainChanged
    \/ HookDisconnect

Spec == Init /\ [][Next]_vars

(***************************************************************************)
(* Calls of the lib/blockchain.ts functions: the arguments and the         *)
(* outcomes of the wallet and SDK calls are chosen from the sets below.    *)
(***************************************************************************)
Signers == {"absent", "signer"}

LibAmounts == {EmptyStr, Str(<<1>>, <<5>>), Str(<<0>>, <<0, 0, 0, 0, 0, 1>>)}

\* a TronWeb instance: present at all, with defaultAddress.base58, with contract()
TronInstances ==
    {[present |-> FALSE, hasAddress |-> FALSE, hasContract |-> FALSE]}
    \cup {[present |-> TRUE, hasAddress |-> a, hasContract |-> c] : a, c \in BOOLEAN}

EvmErrors ==
    {SdkError(<<"execution reverted: not minter">>, <<"execution reverted">>, 0),
     SdkError(<<"insufficient funds">>, <<>>, 0),
     SdkError(<<>>, <<>>, 0)}

TronErrors ==
    {StringError(<<"REVERT opcode executed">>), StringError(<<>>),
     SdkError(<<"Confirmation declined by user">>, <<>>, 0), SdkError(<<>>, <<>>, 0)}

WalletErrors ==
    {SdkError(m, <<>>, c) : m \in {<<>>, <<"wallet error">>}, c \in {4902, 4001}}

Rejects(errors) == {[kind |-> "rejects", error |-> e] : e \in errors}

EvmTxOutcomes == {[kind |-> "returns", hash |-> "0xhash"]} \cup Rejects(EvmErrors)

Trc20Methods == {"mint", "burn", "balanceOf"}

Lookups ==
    {[kind |-> "returns", hasMethods |-> FALSE, methods |-> {}]}
    \cup {[kind |-> "returns", hasMethods |-> TRUE, methods |-> m] : m \in SUBSET Trc20Methods}
    \cup Rejects(TronErrors)

TxIds ==
    {[type |-> "string", len |-> n] : n \in {0, MinTxIdLength - 1, MinTxIdLength, 64}}
    \cup {[type |-> "undefined", len |-> 0], [type |-> "object", len |-> 0]}

SendOutcomes == {[kind |-> "returns", txID |-> t] : t \in TxIds} \cup Rejects(TronErrors)

Providers == {[present |-> FALSE, inner |-> FALSE]}
             \cup {[present |-> TRUE, inner |-> i] : i \in BOOLEAN}

RawBalances == {<<0>>, <<1>>, <<1, 5, 0, 0, 0, 0, 0>>,
                <<1, 2, 3, 4, 5, 6, 7, 8, 9, 1, 2, 3, 4, 5, 6>>}

BalanceOfOutcomes ==
    {[kind |-> "returns", raw |-> b] : b \in RawBalances}
    \cup {[kind |-> "missing"]} \cup Rejects(EvmErrors)

BalanceCallOutcomes ==
    {[kind |-> "returns", numeric |-> TRUE, raw |-> b] : b \in RawBalances}
    \cup {[kind |-> "returns", numeric |-> FALSE, raw |-> <<>>]} \cup Rejects(TronErrors)

SwitchProviders == {"absent", "noSend", "BrowserProvider"}

RequestOutcomes == {[kind |-> "resolves"]} \cup Rejects(WalletErrors)

\* a call completes: what was called, with what, and what came of it
Called(name, arguments, done) ==
    /\ fn' = name
    /\ args' = arguments
    /\ result' = done.result
    /\ sdkCalls' = done.calls
    /\ UNCHANGED <<uiVars, amountVars>>

MintBep20 ==
    /\ fn = "none"
    /\ \E sg \in Signers, amt \in LibAmounts, tx \in EvmTxOutcomes :
           Called("mintBep20Tokens", [signer |-> sg, amount |-> amt],
                  mintBep20Tokens(sg, amt, tx))

BurnBep20 ==
    /\ fn = "none"
    /\ \E sg \in Signers, amt \in LibAmounts, has \in BOOLEAN, tx \in EvmTxOutcomes :
           Called("burnBep20Tokens", [signer |-> sg, amount |-> amt, hasBurnFrom |-> has],
                  burnBep20Tokens(sg, amt, has, tx))

MintTrc20 ==
    /\ fn = "none"
    /\ \E inst \in TronInstances, amt \in LibAmounts, lk \in Lookups, sd \in SendOutcomes :
           Called("mintTrc20Tokens", [instance |-> inst, amount |-> amt],
                  mintTrc20Tokens(inst, amt, lk, sd))

BurnTrc20 ==
    /\ fn = "none"
    /\ \E inst \in TronInstances, amt \in LibAmounts, lk \in Lookups, sd \in SendOutcomes :
           Called("burnTrc20Tokens", [instance |-> inst, amount |-> amt],
                  burnTrc20Tokens(inst, amt, lk, sd))

GetBep20Balance ==
    /\ fn = "none"
    /\ \E prov \in Providers, bal \in BalanceOfOutcomes :
           Called("getBep20Balance", [provider |-> prov], getBep20Balance(prov, bal))

GetTrc20Balance ==
    /\ fn = "none"
    /\ \E inst \in TronInstances, lk \in Lookups, bal \in BalanceCallOutcomes :
           Called("getTrc20Balance", [instance |-> inst], getTrc20Balance(inst, lk, bal))

RequestNetworkSwitch ==
    /\ fn = "none"
    /\ \E prov \in SwitchProviders, target \in SwitchTargets,
          sw \in RequestOutcomes, ad \in RequestOutcomes :
           Called("requestNetworkSwitch", [provider |-> prov, chainId |-> target],
                  requestNetworkSwitch(prov, target, sw, ad))

\* window.tronLink: undefined, or an object with any of its three members
TronLinks ==
    {[exists |-> FALSE, ready |-> FALSE, request |-> FALSE, tronWeb |-> FALSE]}
    \cup {[exists |-> TRUE, ready |-> r, request |-> q, tronWeb |-> t] : r, q, t \in BOOLEAN}

\* the server (no window, hence no tronLink) or the browser
Globals ==
    {[window |-> FALSE, tronLink |-> t] : t \in {x \in TronLinks : ~x.exists}}
    \cup {[window |-> TRUE, tronLink |-> t] : t \in TronLinks}

GetTronLinkProvider ==
    /\ fn = "none"
    /\ \E g \in Globals :
           Called("getTronLinkProvider", [global |-> g], getTronLinkProvider(g))

\* the caller takes the result; the next call can start
Returned ==
    /\ fn # "none"
    /\ fn' = "none"
    /\ args' = <<>>
    /\ result' = [kind |-> "none"]
    /\ sdkCalls' = <<>>
    /\ UNCHANGED <<uiVars, amountVars>>

LibInit == UIIdle /\ LibIdle /\ AmountIdle

LibNext ==
    \/ MintBep20
    \/ BurnBep20
    \/ MintTrc20
    \/ BurnTrc20
    \/ GetBep20Balance
    \/ GetTrc20Balance
    \/ RequestNetworkSwitch
    \/ GetTronLinkProvider
    \/ Returned

LibSpec == LibInit /\ [][LibNext]_vars

(***************************************************************************)
(* Loading lib/blockchain.ts: the environment is fixed when the module is  *)
(* loaded, and its top-level statements run once.                          *)
(***************************************************************************)
EnvValues == {"unset", "empty", "set"}

Environments ==
    [NEXT_PUBLIC_BSC_RPC_URL : EnvValues,
     NEXT_PUBLIC_BEP20_CONTRACT_ADDRESS : EnvValues,
     NEXT_PUBLIC_TRON_RPC_URL : EnvValues,
     NEXT_PUBLIC_TRC20_CONTRACT_ADDRESS : EnvValues,
     NEXT_PUBLIC_TRONGRID_API_KEY : EnvValues]

ToHexOutcomes == {"returns", "throws"}

ModuleLoading ==
    /\ fn = "module"
    /\ args \in [env : Environments, toHex : ToHexOutcomes]
    /\ result = [kind |-> "none"]
    /\ sdkCalls = <<>>

\* the module's top-level statements run
LoadModule ==
    /\ fn = "module"
    /\ result.kind = "none"
    /\ LET done == ModuleInit(args.env, args.toHex)
       IN  /\ result' = done.result
           /\ sdkCalls' = done.calls
    /\ UNCHANGED <<fn, args, uiVars, amountVars>>

ModuleInitState == UIIdle /\ ModuleLoading /\ AmountIdle

ModuleNext == LoadModule

ModuleSpec == ModuleInitState /\ [][ModuleNext]_vars

(***************************************************************************)
(* The amount round trip: an amount string is converted to base units as   *)
(* mintTrc20Tokens / burnTrc20Tokens do, and the base units are displayed  *)
(* as getTrc20Balance does.                                                *)
(***************************************************************************)
MaxIntDigits == 10

DigitPatterns ==
    {<<1, 2, 3, 4, 5, 6, 7, 8, 9, 1, 2, 3, 4, 5, 6, 7, 8, 9>>,
     <<9, 0, 0, 7, 1, 9, 9, 2, 5, 4, 7, 4, 0, 9, 9, 3, 1, 1>>,
     <<8, 9, 1, 7, 1, 7, 4, 9, 8, 1, 0, 3, 3, 2, 4, 6, 5, 5>>}

IntParts == {<<0>>} \cup {SubSeq(d, 1, n) : d \in DigitPatterns, n \in 1..MaxIntDigits}

FracParts ==
    {<<>>, <<5>>, <<1, 0>>, <<0, 0, 5>>, <<0, 0, 0, 0, 0, 1>>, <<1, 2, 3, 4, 5, 6>>,
     <<7, 4, 0, 9, 9, 3>>, <<0, 3, 3, 2, 4, 6>>}

Amounts == {Str(i, f) : i \in IntParts, f \in FracParts}

ConvertAmount ==
    /\ stage = "input"
    /\ stage' = "converted"
    /\ rawAmount' = ToBaseUnits(amount).digits
    /\ UNCHANGED <<amount, display, uiVars, libVars>>

FormatBalance ==
    /\ stage = "converted"
    /\ stage' = "formatted"
    /\ display' = FormatUnits(rawAmount)
    /\ UNCHANGED <<amount, rawAmount, uiVars, libVars>>

AmountInit ==
    /\ UIIdle
    /\ LibIdle
    /\ stage = "input"
    /\ amount \in Amounts
    /\ rawAmount = <<>>
    /\ display = EmptyStr

AmountNext ==
    \/ ConvertAmount
    \/ FormatBalance

AmountSpec == AmountInit /\ [][AmountNext]_vars

\* the amount in canonical form: trailing fractional zeros stripped
Canonical(a) == Str(Norm(a.int), TrimTrailingZeros(a.frac))

\* C5: an amount with at most tokenDecimals fractional digits, converted to
\* base units and back to a display string, is displayed as the original
\* value with its trailing fractional zeros stripped.
C5_AmountRoundTrip ==
    (stage = "formatted" /\ Len(amount.frac) <= tokenDecimals)
        => display = Canonical(amount)

(***************************************************************************)
(* Properties of lib/blockchain.ts                                         *)
(***************************************************************************)
\* the wallet / SDK calls of the last function call that went to api
CallsTo(api) == {i \in 1..Len(sdkCalls) : sdkCalls[i].api = api}

\* the contract lookup returned a handle with methods, m not among them
HandleLacks(m) ==
    \E i \in CallsTo("tronWeb.contract") :
        /\ sdkCalls[i].outcome.kind = "returns"
        /\ sdkCalls[i].outcome.hasMethods
        /\ m \notin sdkCalls[i].outcome.methods

\* C6: mintBep20Tokens without a signer, and mintTrc20Tokens without a TronWeb
\* instance or with one that has no defaultAddress.base58, throw their
\* descriptive error and make no wallet or SDK call at all.
C6_MintFailsFastWithoutWallet ==
    /\ (fn = "mintBep20Tokens" /\ args.signer = "absent")
         => /\ result = Throw(<<"A connected Signer (wallet) is required for minting BEP-20 tokens.">>)
            /\ sdkCalls = <<>>
    /\ (fn = "mintTrc20Tokens" /\ (~args.instance.present \/ ~args.instance.hasAddress))
         => /\ result = Throw(<<"TronLink wallet instance with address is required for minting TRC-20 tokens.">>)
            /\ sdkCalls = <<>>

C6_Witness ==
    /\ fn = "mintTrc20Tokens"
    /\ args.instance.present
    /\ ~args.instance.hasAddress
    /\ args.instance.hasContract
    /\ result.kind = "throw"
    /\ sdkCalls = <<>>

BurnFromMissing ==
    <<"The 'burnFrom(address,uint256)' function is not available on this BEP20 contract instance. Check ABI/Contract.">>

BurnMissing ==
    <<"Contract ABI doesn't seem to have a 'burn(address,uint256)' function. Check ABI/Contract.">>

\* C7, as claimed: burnBep20Tokens on a contract without a callable burnFrom,
\* and burnTrc20Tokens on a handle whose methods lack burn, throw the
\* missing-method message and submit no burn transaction.
C7_BurnMissingMethodMessage ==
    /\ (fn = "burnBep20Tokens" /\ args.signer # "absent" /\ ~args.hasBurnFrom)
         => /\ result = Throw(BurnFromMissing)
            /\ CallsTo("contract.burnFrom") = {}
    /\ (fn = "burnTrc20Tokens" /\ HandleLacks("burn"))
         => /\ result = Throw(BurnMissing)
            /\ CallsTo("send") = {}

\* C7, amended: the same, for an amount string that converts (parseEther,
\* resp. parseFloat and BigInt, succeed); for one that does not, the call
\* still throws and still submits no burn transaction.
C7_BurnMissingMethodMessageForValidAmount ==
    /\ (fn = "burnBep20Tokens" /\ args.signer # "absent" /\ ~args.hasBurnFrom)
         => /\ parseEther(args.amount).ok => result = Throw(BurnFromMissing)
            /\ result.kind = "throw"
            /\ CallsTo("contract.burnFrom") = {}
    /\ (fn = "burnTrc20Tokens" /\ HandleLacks("burn"))
         => /\ ToBaseUnits(args.amount).ok => result = Throw(BurnMissing)
            /\ result.kind = "throw"
            /\ CallsTo("send") = {}

C7_Witness ==
    /\ fn = "burnTrc20Tokens"
    /\ HandleLacks("burn")
    /\ ToBaseUnits(args.amount).ok
    /\ result = Throw(BurnMissing)

SwitchFailedWith(code) ==
    /\ Len(sdkCalls) >= 1
    /\ sdkCalls[1].method = "wallet_switchEthereumChain"
    /\ sdkCalls[1].outcome.kind = "rejects"
    /\ sdkCalls[1].outcome.error.code = code

\* C8: when the switch request fails with code 4902 and the target chain id,
\* compared as passed in, is not BSC_CHAIN_ID, requestNetworkSwitch throws
\* the missing-configuration error and sends no request after the switch.
C8_UnknownChainWithoutAddParameters ==
    (fn = "requestNetworkSwitch" /\ args.chainId # BSC_CHAIN_ID /\ SwitchFailedWith(4902))
        => /\ result = Throw(<<"Failed to add network: ", "Configuration to add chainId ",
                               ChainIdText(args.chainId), " is missing.">>)
           /\ Len(sdkCalls) = 1

C8_Witness ==
    /\ fn = "requestNetworkSwitch"
    /\ args.chainId = "string:56"
    /\ SwitchFailedWith(4902)
    /\ result.kind = "throw"
    /\ Len(sdkCalls) = 1

RequestMethods == [i \in 1..Len(sdkCalls) |-> sdkCalls[i].method]

\* the request sequences of an execution that sends a request at all
SwitchSequenceRules ==
    /\ RequestMethods \in {<<"wallet_switchEthereumChain">>,
                           <<"wallet_switchEthereumChain", "wallet_addEthereumChain">>}
    /\ Len(sdkCalls) = 2 => (SwitchFailedWith(4902) /\ args.chainId = BSC_CHAIN_ID)
    /\ (sdkCalls[1].outcome.kind = "rejects" /\ ~SwitchFailedWith(4902))
         => /\ result.kind = "throw"
            /\ Head(result.message) = "Failed to switch network: "
            /\ Len(result.message) = 2
            /\ Len(sdkCalls) = 1

\* C9, as claimed: in every execution of requestNetworkSwitch the requests are
\* one switch request, or one switch request followed by one add request
\* (only after code 4902 and for BSC_CHAIN_ID); any other switch failure is
\* thrown as a descriptive error without a second request.
C9_SwitchRequestSequences ==
    fn = "requestNetworkSwitch" => SwitchSequenceRules

\* C9, amended: the same for every execution that gets to send; an execution
\* whose provider has no send method, or whose chain id does not convert to a
\* BigInt, throws before it sends anything.
C9_SwitchRequestSequencesOrNone ==
    fn = "requestNetworkSwitch"
        => IF args.provider # "BrowserProvider" \/ ~BigIntOf(args.chainId).ok
           THEN sdkCalls = <<>> /\ result.kind = "throw"
           ELSE SwitchSequenceRules

C9_Witness ==
    /\ fn = "requestNetworkSwitch"
    /\ RequestMethods = <<"wallet_switchEthereumChain", "wallet_addEthereumChain">>
    /\ sdkCalls[2].outcome.kind = "rejects"
    /\ result.kind = "throw"

\* the raw-balance call was made and gave a balance
RawBalanceObtained ==
    /\ Len(sdkCalls) > 0
    /\ LET last == sdkCalls[Len(sdkCalls)]
       IN  \/ last.api = "contract.balanceOf" /\ last.outcome.kind = "returns"
           \/ /\ last.api = "balanceOf.call"
              /\ last.outcome.kind = "returns"
              /\ last.outcome.numeric

SendCalls == CallsTo("send")

\* send() resolved with a string of at least 60 characters
SentTxId(i) ==
    /\ sdkCalls[i].outcome.kind = "returns"
    /\ sdkCalls[i].outcome.txID.type = "string"
    /\ sdkCalls[i].outcome.txID.len >= 60

\* C13: mintTrc20Tokens and burnTrc20Tokens call send() at most once, always
\* with feeLimit 150000000, callValue 0 and shouldPollResponse false. They
\* return only when send() resolved with a string of length >= 60, and then
\* return that string; for every other result of send() (empty, not a string,
\* shorter than 60) and when send() rejects they throw a non-empty message.
C13_Trc20SendSanityCheck ==
    fn \in {"mintTrc20Tokens", "burnTrc20Tokens"} =>
        /\ Cardinality(SendCalls) <= 1
        /\ \A i \in SendCalls :
              /\ sdkCalls[i].feeLimit = 150000000
              /\ sdkCalls[i].callValue = 0
              /\ sdkCalls[i].shouldPollResponse = FALSE
              /\ sdkCalls[i].method = (IF fn = "mintTrc20Tokens" THEN "mint" ELSE "burn")
              /\ IF SentTxId(i)
                 THEN result = Return(sdkCalls[i].outcome.txID)
                 ELSE result.kind = "throw" /\ result.message # <<>>
        /\ result.kind = "return" => \E i \in SendCalls : SentTxId(i)
        /\ result.kind \in {"return", "throw"}

C13_Witness ==
    /\ fn = "burnTrc20Tokens"
    /\ \E i \in SendCalls :
          /\ sdkCalls[i].outcome.kind = "returns"
          /\ sdkCalls[i].outcome.txID.type = "string"
          /\ sdkCalls[i].outcome.txID.len = 59
    /\ result = Throw(<<"Invalid or missing transaction ID received from TronLink.">>)

\* the five checks in the order the claim gives them
TronLinkChecks ==
    LET g == args.global
    IN  <<g.window, g.tronLink.exists, g.tronLink.ready, g.tronLink.request,
          g.tronLink.tronWeb>>

FirstFailingCheck ==
    IF \A k \in 1..5 : TronLinkChecks[k] THEN 0
    ELSE CHOOSE k \in 1..5 : ~TronLinkChecks[k] /\ \A j \in 1..(k - 1) : TronLinkChecks[j]

\* what is logged when check k is the first to fail; outside a browser
\* (check 1) the function returns without logging
TronLinkDiagnostics ==
    << <<>>,
       <<ConsoleCall("console.warn", "TronLink (window.tronLink) not found.")>>,
       <<ConsoleCall("console.warn",
             "TronLink is installed but not ready. User might need to log in or setup.")>>,
       <<ConsoleCall("console.error",
             "TronLink found and ready, but 'request' method is missing.")>>,
       <<ConsoleCall("console.warn",
             "TronLink found and ready, but 'tronWeb' instance is not yet injected. May need a short delay or re-check.")>> >>

\* C14: getTronLinkProvider never throws; it returns the injected object
\* exactly when all five checks pass (browser context, object exists, ready,
\* request method, tronWeb instance) and nothing is logged then; otherwise
\* it returns null and what is logged is decided by the first failing check
\* alone, differently for each check (nothing outside a browser, a distinct
\* message for each of the four checks of the object).
C14_TronLinkProviderChecks ==
    fn = "getTronLinkProvider" =>
        /\ result.kind = "return"
        /\ IF FirstFailingCheck = 0
           THEN result = Return([handle |-> args.global.tronLink]) /\ sdkCalls = <<>>
           ELSE /\ result = Return(Text("null"))
                /\ sdkCalls = TronLinkDiagnostics[FirstFailingCheck]
        /\ \A j, k \in 1..5 : j # k => TronLinkDiagnostics[j] # TronLinkDiagnostics[k]

C14_Witness ==
    /\ fn = "getTronLinkProvider"
    /\ FirstFailingCheck = 5
    /\ result = Return(Text("null"))
    /\ Len(sdkCalls) = 1

\* the module has been loaded from an environment
ModuleLoaded == fn = "module" /\ result.kind # "none"

Present(name) == args.env[name] = "set"

\* C11: loading the module succeeds exactly when the four required values
\* (EVM RPC URL, EVM token address, Tron RPC URL, Tron token address) are all
\* present and the Tron address converts to hex; otherwise it aborts with a
\* message. (The optional API key is no part of the condition.)
C11_InitRequiresAllFourValues ==
    ModuleLoaded =>
        /\ result.kind = "return"
             <=> /\ Present("NEXT_PUBLIC_BSC_RPC_URL")
                 /\ Present("NEXT_PUBLIC_BEP20_CONTRACT_ADDRESS")
                 /\ Present("NEXT_PUBLIC_TRON_RPC_URL")
                 /\ Present("NEXT_PUBLIC_TRC20_CONTRACT_ADDRESS")
                 /\ args.toHex = "returns"
        /\ result.kind = "throw" => result.message # <<>>

(***************************************************************************)
(* Properties of WalletConnectButton                                       *)
(***************************************************************************)
\* the onConnected call with these arguments
ConnectedArgs(address, prov, chain, wrongNetwork) ==
    [cb |-> "onConnected", address |-> address, provider |-> prov,
     chain |-> chain, wrongNetwork |-> wrongNetwork]

\* the chain a recognized network id belongs to
NetworkChain(id) == IF id = BSC_CHAIN_ID THEN "BSC" ELSE "TRON"

Recognized(id) == id \in {BSC_CHAIN_ID, ACTIVE_TRON_CHAIN_ID}

\* C1: whenever the connection effect runs with the wallet connected and the
\* chain id equal to the configured EVM (Tron) chain id, it calls onConnected
\* with chain BSC (TRON) and wrongNetwork = (selectedChain is not that chain).
C1_EffectResolvesRecognizedChain ==
    [][ (Effect /\ WalletConnected /\ Recognized(chainId))
        => /\ CallArgs(lastCall') =
                ConnectedArgs(account, provider, NetworkChain(chainId),
                              selectedChain # NetworkChain(chainId))
           /\ lastCall'.src = "effect" ]_vars

C1_Witness ==
    /\ lastCall.cb = "onConnected"
    /\ lastCall.src = "effect"
    /\ lastCall.net = BSC_CHAIN_ID
    /\ lastCall.sel = "TRON"
    /\ lastCall.chain = "BSC"
    /\ lastCall.wrongNetwork

\* C2: whenever the connection effect runs with the wallet connected and a
\* chain id that is neither configured id, it logs a warning and calls
\* onConnected with chain = selectedChain and wrongNetwork = true; the effect
\* completes (its dependencies are recorded as run).
C2_EffectUnrecognizedChainFallsBack ==
    [][ (Effect /\ WalletConnected /\ ~Recognized(chainId))
        => /\ CallArgs(lastCall') = ConnectedArgs(account, provider, selectedChain, TRUE)
           /\ lastCall'.src = "effect"
           /\ lastCall'.warned
           /\ effectRan' /\ effectDeps' = Deps ]_vars

C2_Witness ==
    /\ lastCall.cb = "onConnected"
    /\ lastCall.src = "effect"
    /\ ~Recognized(lastCall.net)
    /\ lastCall.chain = lastCall.sel
    /\ lastCall.wrongNetwork
    /\ lastCall.warned

\* C3: every onConnected call made while the wallet is on a recognized network
\* passes the chain of that network, and wrongNetwork = (that chain is not
\* the selected chain), whether the effect or handleConnect makes the call.
C3_ChainDerivedFromWalletNetwork ==
    (lastCall.cb = "onConnected" /\ Recognized(lastCall.net))
        => /\ lastCall.chain = NetworkChain(lastCall.net)
           /\ lastCall.wrongNetwork = (NetworkChain(lastCall.net) # lastCall.sel)

\* C4: onDisconnected is never called twice in a row, and onConnected is never
\* called twice in a row with the same arguments unless some state changed
\* between the two calls.
C4_NoRedundantCallbacks ==
    /\ ~(lastCall.cb = "onDisconnected" /\ prevCall.cb = "onDisconnected")
    /\ ~(lastCall.cb = "onConnected" /\ prevCall = CallArgs(lastCall) /\ ~lastCall.fresh)

\* handleConnect finds no injected wallet and returns
NoWalletFound == ClickConnect /\ connectedAddress = null /\ ~ethereum

\* eth_requestAccounts resolved with an empty account list
NoAccountsFound == AccountsResolved /\ toast' = "Connection Failed"

\* eth_requestAccounts resolved with an account
ConnectSucceeded == AccountsResolved /\ toast' = "Wallet Connected"

\* C12: every failure path of handleConnect (no injected wallet, request
\* rejected, empty account list) ends with isConnecting false, makes no
\* callback call, leaves connectedAddress unset and has issued
\* eth_requestAccounts at most once; a successful connect also ends with
\* isConnecting false and one request.
C12_HandleConnectFailurePaths ==
    [][ /\ (NoWalletFound \/ AccountsRejected \/ NoAccountsFound)
             => /\ isConnecting' = FALSE
                /\ connectedAddress' = null
                /\ lastCall' = lastCall
                /\ hcRequests' <= 1
                /\ hcPc' = "idle"
        /\ ConnectSucceeded
             => /\ isConnecting' = FALSE
                /\ hcRequests' = 1
                /\ hcPc' = "idle" ]_vars

C12_Witness ==
    /\ toast = "Connection Failed"
    /\ hcPc = "idle"
    /\ hcRequests = 1
    /\ ~isConnecting
    /\ connectedAddress = null

====
